---- MODULE Spec2Model ----
(***************************************************************************)
(* Model of the deterministic code of adk_job_interview_simulator:         *)
(*   - load_json_file / save_json_file / update_session_append_answer      *)
(*     (src/main_interviewer_agent/agent.py),                              *)
(*   - save_questions_to_file (src/interview_planner_agent/agent.py).      *)
(*                                                                         *)
(* A file is a sequence of characters (one-character strings).  JSON text  *)
(* is parsed and printed character by character the way Python's json      *)
(* module does it (json.loads, and json.dump with ensure_ascii=False and   *)
(* indent=2), restricted to the grammar the model's inputs use: null,      *)
(* true, false, integers, strings with the escapes \" \\ \/ \n \t \r \f,   *)
(* arrays and objects.                                                     *)
(***************************************************************************)
EXTENDS Integers, Sequences, FiniteSets, TLC

(***************************************************************************)
(* Python values as produced by json.loads.  A dict is the sequence of its *)
(* <<key, value>> items in insertion order, with unique keys.              *)
(***************************************************************************)
JNull == [t |-> "null"]
JBool(b) == [t |-> "bool", b |-> b]
JNum(n) == [t |-> "num", n |-> n]
JStr(s) == [t |-> "str", s |-> s]
JArr(a) == [t |-> "arr", a |-> a]
JObj(m) == [t |-> "obj", m |-> m]
\* the floats float("nan"), float("inf") and float("-inf"), named by the
\* constant json reads them from and writes them as
JFloat(c) == [t |-> "float", c |-> c]

\* dict.__contains__
HasKey(m, k) == \E i \in 1..Len(m) : m[i][1] = k

\* dict.__getitem__ (only applied when the key is present)
GetKey(m, k) == m[CHOOSE i \in 1..Len(m) : m[i][1] = k][2]

\* dict.__setitem__: an existing key keeps its position and takes the new
\* value, a new key goes to the end
PutKey(m, k, v) ==
  IF HasKey(m, k)
  THEN [i \in 1..Len(m) |-> IF m[i][1] = k THEN <<k, v>> ELSE m[i]]
  ELSE Append(m, <<k, v>>)

(***************************************************************************)
(* json.loads                                                              *)
(***************************************************************************)
\* the whitespace json.decoder skips between tokens
JsonWs == {" ", "\t", "\n", "\r"}

Digits == <<"0", "1", "2", "3", "4", "5", "6", "7", "8", "9">>

IsDigit(c) == \E d \in 1..10 : Digits[d] = c

DigitVal(c) == (CHOOSE d \in 1..10 : Digits[d] = c) - 1

ParseFail == [ok |-> FALSE, val |-> JNull, pos |-> 0]

ParseOk(v, p) == [ok |-> TRUE, val |-> v, pos |-> p]

RECURSIVE SkipWs(_, _)
SkipWs(s, i) ==
  IF i <= Len(s) /\ s[i] \in JsonWs THEN SkipWs(s, i + 1) ELSE i

\* the single-character escapes of json.decoder.BACKSLASH
Unescape(c) ==
  CASE c = "n" -> "\n"
    [] c = "t" -> "\t"
    [] c = "r" -> "\r"
    [] c = "f" -> "\f"
    [] OTHER -> c

\* py_scanstring in strict mode, from the character after the opening quote
RECURSIVE ScanString(_, _, _)
ScanString(s, j, acc) ==
  IF j > Len(s) THEN ParseFail
  ELSE IF s[j] = "\"" THEN ParseOk(JStr(acc), j + 1)
  ELSE IF s[j] = "\\"
    THEN IF j + 1 <= Len(s) /\ s[j + 1] \in {"\"", "\\", "/", "n", "t", "r", "f"}
         THEN ScanString(s, j + 2, Append(acc, Unescape(s[j + 1])))
         ELSE ParseFail
  ELSE IF s[j] \in {"\n", "\t", "\r", "\f"} THEN ParseFail
  ELSE ScanString(s, j + 1, Append(acc, s[j]))

\* the digits of NUMBER_RE's integer part, from position j
RECURSIVE ScanDigits(_, _, _)
ScanDigits(s, j, acc) ==
  IF j <= Len(s) /\ IsDigit(s[j])
  THEN ScanDigits(s, j + 1, acc * 10 + DigitVal(s[j]))
  ELSE ParseOk(JNum(acc), j)

\* NUMBER_RE = -?(0|[1-9]\d*), integers only
ScanNumber(s, i) ==
  LET neg == s[i] = "-"
      j == IF neg THEN i + 1 ELSE i
  IN IF j > Len(s) \/ ~IsDigit(s[j]) THEN ParseFail
     ELSE LET r == IF s[j] = "0" THEN ParseOk(JNum(0), j + 1)
                   ELSE ScanDigits(s, j, 0)
          IN IF neg THEN ParseOk(JNum(0 - r.val.n), r.pos) ELSE r

\* the literal w starts at position i of s
StartsWith(s, i, w) ==
  /\ i + Len(w) - 1 <= Len(s)
  /\ \A k \in 1..Len(w) : s[i + k - 1] = w[k]

\* the constants json.decoder reads besides null, true and false
NaN == <<"N", "a", "N">>

PosInf == <<"I", "n", "f", "i", "n", "i", "t", "y">>

NegInf == <<"-">> \o PosInf

RECURSIVE ScanOnce(_, _), ScanMembers(_, _, _), ScanElements(_, _, _)
\* json.scanner.py_make_scanner._scan_once: the value starting at s[i]
ScanOnce(s, i) ==
  IF i > Len(s) THEN ParseFail
  ELSE IF s[i] = "\"" THEN ScanString(s, i + 1, <<>>)
  ELSE IF s[i] = "{"
    THEN LET j == SkipWs(s, i + 1)
         IN IF j <= Len(s) /\ s[j] = "}" THEN ParseOk(JObj(<<>>), j + 1)
            ELSE ScanMembers(s, j, <<>>)
  ELSE IF s[i] = "["
    THEN LET j == SkipWs(s, i + 1)
         IN IF j <= Len(s) /\ s[j] = "]" THEN ParseOk(JArr(<<>>), j + 1)
            ELSE ScanElements(s, j, <<>>)
  ELSE IF StartsWith(s, i, <<"n", "u", "l", "l">>) THEN ParseOk(JNull, i + 4)
  ELSE IF StartsWith(s, i, <<"t", "r", "u", "e">>) THEN ParseOk(JBool(TRUE), i + 4)
  ELSE IF StartsWith(s, i, <<"f", "a", "l", "s", "e">>) THEN ParseOk(JBool(FALSE), i + 5)
  ELSE IF IsDigit(s[i]) \/ (s[i] = "-" /\ i < Len(s) /\ IsDigit(s[i + 1]))
    THEN ScanNumber(s, i)
  ELSE IF StartsWith(s, i, NaN) THEN ParseOk(JFloat(NaN), i + 3)
  ELSE IF StartsWith(s, i, PosInf) THEN ParseOk(JFloat(PosInf), i + 8)
  ELSE IF StartsWith(s, i, NegInf) THEN ParseOk(JFloat(NegInf), i + 9)
  ELSE ParseFail

\* json.decoder.JSONObject: the members from the key at s[j]; a repeated key
\* takes the last value (dict(pairs))
ScanMembers(s, j, acc) ==
  IF j > Len(s) \/ s[j] # "\"" THEN ParseFail
  ELSE LET key == ScanString(s, j + 1, <<>>)
       IN IF ~key.ok THEN ParseFail
          ELSE LET c == SkipWs(s, key.pos)
               IN IF c > Len(s) \/ s[c] # ":" THEN ParseFail
                  ELSE LET v == ScanOnce(s, SkipWs(s, c + 1))
                       IN IF ~v.ok THEN ParseFail
                          ELSE LET e == SkipWs(s, v.pos)
                                   m == PutKey(acc, key.val.s, v.val)
                               IN IF e > Len(s) THEN ParseFail
                                  ELSE IF s[e] = "}" THEN ParseOk(JObj(m), e + 1)
                                  ELSE IF s[e] = ","
                                    THEN ScanMembers(s, SkipWs(s, e + 1), m)
                                  ELSE ParseFail

\* json.decoder.JSONArray: the elements from the value at s[j]
ScanElements(s, j, acc) ==
  LET v == ScanOnce(s, j)
  IN IF ~v.ok THEN ParseFail
     ELSE LET e == SkipWs(s, v.pos)
              a == Append(acc, v.val)
          IN IF e > Len(s) THEN ParseFail
             ELSE IF s[e] = "]" THEN ParseOk(JArr(a), e + 1)
             ELSE IF s[e] = "," THEN ScanElements(s, SkipWs(s, e + 1), a)
             ELSE ParseFail

\* json.loads: one value, surrounded by whitespace only.
\* ok = FALSE stands for the JSONDecodeError it raises.
json_loads(s) ==
  LET r == ScanOnce(s, SkipWs(s, 1))
  IN IF r.ok /\ SkipWs(s, r.pos) > Len(s) THEN r ELSE ParseFail

(***************************************************************************)
(* json.dump(obj, f, ensure_ascii=False, indent=2)                         *)
(***************************************************************************)
\* json.encoder.ESCAPE_DCT with ensure_ascii=False
EscapeChar(c) ==
  CASE c = "\"" -> <<"\\", "\"">>
    [] c = "\\" -> <<"\\", "\\">>
    [] c = "\n" -> <<"\\", "n">>
    [] c = "\t" -> <<"\\", "t">>
    [] c = "\r" -> <<"\\", "r">>
    [] c = "\f" -> <<"\\", "f">>
    [] OTHER -> <<c>>

RECURSIVE EscapeString(_)
EscapeString(s) ==
  IF s = <<>> THEN <<>> ELSE EscapeChar(Head(s)) \o EscapeString(Tail(s))

\* json.encoder.py_encode_basestring
EncodeString(s) == <<"\"">> \o EscapeString(s) \o <<"\"">>

RECURSIVE EncodeNat(_)
EncodeNat(n) ==
  IF n < 10 THEN <<Digits[n + 1]>>
  ELSE EncodeNat(n \div 10) \o <<Digits[(n % 10) + 1]>>

\* int.__repr__
EncodeInt(n) == IF n < 0 THEN <<"-">> \o EncodeNat(0 - n) ELSE EncodeNat(n)

\* the indent of nesting level n: 2 * n spaces
JsonIndent == 2

NewlineIndent(n) == <<"\n">> \o [k \in 1..(JsonIndent * n) |-> " "]

RECURSIVE Encode(_, _), EncodeItems(_, _, _, _)
\* json.encoder._make_iterencode._iterencode at nesting level lvl
Encode(v, lvl) ==
  CASE v.t = "null" -> <<"n", "u", "l", "l">>
    [] v.t = "bool" -> IF v.b THEN <<"t", "r", "u", "e">>
                       ELSE <<"f", "a", "l", "s", "e">>
    [] v.t = "num" -> EncodeInt(v.n)
    [] v.t = "float" -> v.c
    [] v.t = "str" -> EncodeString(v.s)
    [] v.t = "arr" ->
         IF v.a = <<>> THEN <<"[", "]">>
         ELSE <<"[">> \o EncodeItems(v.a, 1, lvl + 1, FALSE)
                \o NewlineIndent(lvl) \o <<"]">>
    [] v.t = "obj" ->
         IF v.m = <<>> THEN <<"{", "}">>
         ELSE <<"{">> \o EncodeItems(v.m, 1, lvl + 1, TRUE)
                \o NewlineIndent(lvl) \o <<"}">>

\* the items k.. of a list or dict, each on its own line at level lvl,
\* separated by "," and, in a dict, written as key ": " value
EncodeItems(items, k, lvl, isDict) ==
  IF k > Len(items) THEN <<>>
  ELSE (IF k > 1 THEN <<",">> ELSE <<>>)
       \o NewlineIndent(lvl)
       \o (IF isDict
           THEN EncodeString(items[k][1]) \o <<":", " ">> \o Encode(items[k][2], lvl)
           ELSE Encode(items[k], lvl))
       \o EncodeItems(items, k + 1, lvl, isDict)

\* the complete text json.dump writes
json_dump(v) == Encode(v, 0)

(***************************************************************************)
(* Python helpers used by the tools                                        *)
(***************************************************************************)
\* the characters str.strip() removes
PyWhitespace == {" ", "\t", "\n", "\r", "\f"}

RECURSIVE lstrip(_)
lstrip(s) ==
  IF s # <<>> /\ Head(s) \in PyWhitespace THEN lstrip(Tail(s)) ELSE s

RECURSIVE rstrip(_)
rstrip(s) ==
  IF s # <<>> /\ s[Len(s)] \in PyWhitespace
  THEN rstrip(SubSeq(s, 1, Len(s) - 1)) ELSE s

\* str.strip()
strip(s) == rstrip(lstrip(s))

(***************************************************************************)
(* The file system and the environment                                     *)
(***************************************************************************)
SessionPath == "interview_session.json"
PlanPath == "interview_plan.json"
Paths == {SessionPath, PlanPath}

NoFile == [exists |-> FALSE, text |-> <<>>]

FileOf(text) == [exists |-> TRUE, text |-> text]

\* What the operating system does to one call: nothing ("ok"), or
\* open(path, "r") raises OSError ("read_error"), or open(path, "w") raises
\* OSError ("open_error"), or the write raises after open(path, "w") has
\* truncated the file: with nothing written ("truncate_error") or with a
\* prefix of the text written ("write_error").
IoOutcomes == {"ok", "read_error", "open_error", "truncate_error", "write_error"}

\* the outcomes that matter to a call that only writes
WriteOutcomes == {"ok", "open_error", "truncate_error", "write_error"}

\* the prefix of text that reached the file when the write failed
WrittenPrefix(text, io) ==
  IF io = "truncate_error" THEN <<>> ELSE SubSeq(text, 1, Len(text) \div 2)

\* write_json with the file opened in append mode ("a")
write_json_append(fs, path, obj, io) ==
  CASE io = "open_error" -> [ok |-> FALSE, fs |-> fs]
    [] io \in {"truncate_error", "write_error"} ->
         [ok |-> FALSE,
          fs |-> [fs EXCEPT ![path] =
                    FileOf(fs[path].text \o WrittenPrefix(json_dump(obj), io))]]
    [] OTHER -> [ok |-> TRUE,
                 fs |-> [fs EXCEPT ![path] = FileOf(fs[path].text \o json_dump(obj))]]

\* with open(path, "w") as f: json.dump(obj, f, ensure_ascii=False, indent=2)
\* ok = FALSE stands for the exception raised; open(path, "w") truncates the
\* file before anything is written.
write_json(fs, path, obj, io) ==
  CASE io = "open_error" -> [ok |-> FALSE, fs |-> fs]
    [] io \in {"truncate_error", "write_error"} ->
         [ok |-> FALSE,
          fs |-> [fs EXCEPT ![path] = FileOf(WrittenPrefix(json_dump(obj), io))]]
    [] OTHER -> [ok |-> TRUE, fs |-> [fs EXCEPT ![path] = FileOf(json_dump(obj))]]

\* with open(path, "r") as f: json.load(f)
\* ok = FALSE stands for the OSError or JSONDecodeError raised.
read_json(fs, path, io) ==
  IF io = "read_error" THEN ParseFail ELSE json_loads(fs[path].text)

(***************************************************************************)
(* load_json_file, save_json_file, save_questions_to_file                  *)
(***************************************************************************)
ErrorLoad(msg) == [status |-> "error", data |-> JNull, error_message |-> msg]

ErrorResult(msg) == [status |-> "error", error_message |-> msg]

\* load_json_file that creates an empty document where no file exists
load_json_file_default(fs, path, io) ==
  IF ~fs[path].exists
  THEN [fs |-> [fs EXCEPT ![path] = FileOf(json_dump(JObj(<<>>)))],
        res |-> [status |-> "success", data |-> JObj(<<>>), error_message |-> ""]]
  ELSE LET r == read_json(fs, path, io)
       IN [fs |-> fs,
           res |-> IF r.ok
                   THEN [status |-> "success", data |-> r.val, error_message |-> ""]
                   ELSE ErrorLoad("exception")]

load_json_file(fs, path, io) ==
  IF ~fs[path].exists
  THEN [fs |-> fs, res |-> ErrorLoad("File not found")]
  ELSE LET r == read_json(fs, path, io)
       IN [fs |-> fs,
           res |-> IF r.ok
                   THEN [status |-> "success", data |-> r.val, error_message |-> ""]
                   ELSE ErrorLoad("exception")]

save_json_file(fs, data_json, path, io) ==
  LET parsed == json_loads(data_json)
  IN IF ~parsed.ok
     THEN [fs |-> fs, res |-> ErrorResult("exception")]
     ELSE LET w == write_json(fs, path, parsed.val, io)
          IN [fs |-> w.fs,
              res |-> IF w.ok
                      THEN [status |-> "success", message |-> "Saved"]
                      ELSE ErrorResult("exception")]

save_questions_to_file(fs, questions, filename, io) ==
  LET data == json_loads(questions)
  IN IF ~data.ok
     THEN [fs |-> fs, res |-> ErrorResult("exception")]
     ELSE LET w == write_json(fs, filename, data.val, io)
          IN [fs |-> w.fs,
              res |-> IF w.ok
                      THEN [status |-> "success", message |-> "Saved"]
                      ELSE ErrorResult("exception")]

(***************************************************************************)
(* update_session_append_answer                                            *)
(***************************************************************************)
KCurrentTopicIndex == <<"c", "u", "r", "r", "e", "n", "t", "_", "t", "o", "p", "i", "c", "_", "i", "n", "d", "e", "x">>
KAskedFollowup == <<"a", "s", "k", "e", "d", "_", "f", "o", "l", "l", "o", "w", "u", "p", "_", "f", "o", "r", "_", "t", "o", "p", "i", "c">>
KAnswers == <<"a", "n", "s", "w", "e", "r", "s">>
KTopicId == <<"t", "o", "p", "i", "c", "_", "i", "d">>
KQuestionId == <<"q", "u", "e", "s", "t", "i", "o", "n", "_", "i", "d">>
KOriginalAnswer == <<"o", "r", "i", "g", "i", "n", "a", "l", "_", "a", "n", "s", "w", "e", "r">>
KFollowupAnswer == <<"f", "o", "l", "l", "o", "w", "u", "p", "_", "a", "n", "s", "w", "e", "r">>
KFinalAnswer == <<"f", "i", "n", "a", "l", "_", "a", "n", "s", "w", "e", "r">>
KCompleteness == <<"c", "o", "m", "p", "l", "e", "t", "e", "n", "e", "s", "s">>
KRating == <<"r", "a", "t", "i", "n", "g">>

\* the session the tool starts from when no file exists
EmptySession ==
  JObj(<< <<KCurrentTopicIndex, JNum(0)>>,
          <<KAskedFollowup, JObj(<<>>)>>,
          <<KAnswers, JArr(<<>>)>> >>)

\* rec.get(key): the value, or None when the key is absent
DictGet(rec, key) == IF HasKey(rec.m, key) THEN GetKey(rec.m, key) ELSE JNull

\* RecMatches with the topic looked up under a key no record has ("topic"), so
\* that no record ever matches
RecMatchesWrongKey(rec, topic_id, question_id) ==
  /\ DictGet(rec, <<"t", "o", "p", "i", "c">>) = JStr(topic_id)
  /\ DictGet(rec, KQuestionId) = JStr(question_id)

\* rec.get("topic_id") == topic_id and rec.get("question_id") == question_id
RecMatches(rec, topic_id, question_id) ==
  /\ DictGet(rec, KTopicId) = JStr(topic_id)
  /\ DictGet(rec, KQuestionId) = JStr(question_id)

\* _find_idx over the list answers from position i on: the index of the first
\* matching record (idx = 0 stands for None); raised = TRUE stands for the
\* AttributeError of rec.get on an element that is not a dict
RECURSIVE FindFrom(_, _, _, _)
FindFrom(answers, i, topic_id, question_id) ==
  IF i > Len(answers) THEN [raised |-> FALSE, idx |-> 0]
  ELSE IF answers[i].t # "obj" THEN [raised |-> TRUE, idx |-> 0]
  ELSE IF RecMatches(answers[i], topic_id, question_id)
    THEN [raised |-> FALSE, idx |-> i]
  ELSE FindFrom(answers, i + 1, topic_id, question_id)

\* _find_idx(); session["answers"] raises unless session is a dict with that
\* key, and only a list can be both enumerated by records and appended to
find_idx(session, topic_id, question_id) ==
  IF session.t # "obj" \/ ~HasKey(session.m, KAnswers)
  THEN [raised |-> TRUE, idx |-> 0]
  ELSE IF GetKey(session.m, KAnswers).t # "arr"
    THEN [raised |-> TRUE, idx |-> 0]
  ELSE FindFrom(GetKey(session.m, KAnswers).a, 1, topic_id, question_id)

\* the "\n\n" between the original and the follow-up answer
Separator == <<"\n", "\n">>

\* not followup_answer
NoFollowup(followup_answer) ==
  followup_answer = JNull \/ followup_answer = JStr(<<>>)

\* final_answer without the .strip()
final_answer_no_strip(original_answer, followup_answer) ==
  IF NoFollowup(followup_answer) THEN original_answer
  ELSE original_answer \o Separator \o followup_answer.s

\* final_answer with each answer stripped before the two are joined
final_answer_strip_parts(original_answer, followup_answer) ==
  IF NoFollowup(followup_answer) THEN strip(original_answer)
  ELSE strip(original_answer) \o Separator \o strip(followup_answer.s)

\* (original_answer if not followup_answer
\*  else (original_answer + "\n\n" + followup_answer)).strip()
final_answer(original_answer, followup_answer) ==
  strip(IF NoFollowup(followup_answer) THEN original_answer
        ELSE original_answer \o Separator \o followup_answer.s)

\* the arguments of one call after session_path
MergeArgs(topic_id, question_id, original_answer, followup_answer, completeness, rating) ==
  [topic_id |-> topic_id, question_id |-> question_id,
   original_answer |-> original_answer, followup_answer |-> followup_answer,
   completeness |-> completeness, rating |-> rating]

\* make_record that stores an empty follow-up answer as null
make_record_normalized(a) ==
  JObj(<< <<KTopicId, JStr(a.topic_id)>>,
          <<KQuestionId, JStr(a.question_id)>>,
          <<KOriginalAnswer, JStr(a.original_answer)>>,
          <<KFollowupAnswer,
            IF NoFollowup(a.followup_answer) THEN JNull ELSE a.followup_answer>>,
          <<KFinalAnswer, JStr(final_answer(a.original_answer, a.followup_answer))>>,
          <<KCompleteness, a.completeness>>,
          <<KRating, a.rating>> >>)

make_record(a) ==
  JObj(<< <<KTopicId, JStr(a.topic_id)>>,
          <<KQuestionId, JStr(a.question_id)>>,
          <<KOriginalAnswer, JStr(a.original_answer)>>,
          <<KFollowupAnswer, a.followup_answer>>,
          <<KFinalAnswer, JStr(final_answer(a.original_answer, a.followup_answer))>>,
          <<KCompleteness, a.completeness>>,
          <<KRating, a.rating>> >>)

\* put_record that deletes the record found and appends the new one at the end
put_record_move(session, idx, record) ==
  LET answers == GetKey(session.m, KAnswers).a
  IN JObj(PutKey(session.m, KAnswers,
                 JArr(Append(IF idx = 0 THEN answers
                             ELSE SubSeq(answers, 1, idx - 1)
                                  \o SubSeq(answers, idx + 1, Len(answers)),
                             record))))

\* put_record that appends to a copy of the list and drops the copy
put_record_dropped(session, idx, record) ==
  LET answers == GetKey(session.m, KAnswers).a
  IN JObj(PutKey(session.m, KAnswers,
                 JArr(IF idx = 0 THEN answers ELSE [answers EXCEPT ![idx] = record])))

\* put_record that, replacing a record, keeps the follow-up answer and the
\* rating of the old record where the new one has null
put_record_keep_fields(session, idx, record) ==
  LET answers == GetKey(session.m, KAnswers).a
      kept(old, k) == IF DictGet(record, k) = JNull THEN DictGet(old, k)
                      ELSE DictGet(record, k)
      merged(old) == JObj(PutKey(PutKey(record.m, KFollowupAnswer,
                                        kept(old, KFollowupAnswer)),
                                 KRating, kept(old, KRating)))
  IN JObj(PutKey(session.m, KAnswers,
                 JArr(IF idx = 0 THEN Append(answers, record)
                      ELSE [answers EXCEPT ![idx] = merged(answers[idx])])))

\* put_record that also marks the follow-up of the topic as asked when the
\* record has a follow-up answer
put_record_mark_followup(session, idx, record) ==
  LET answers == GetKey(session.m, KAnswers).a
      asked == IF HasKey(session.m, KAskedFollowup)
                  /\ GetKey(session.m, KAskedFollowup).t = "obj"
               THEN GetKey(session.m, KAskedFollowup).m ELSE <<>>
      marked == IF DictGet(record, KFollowupAnswer) = JNull THEN session.m
                ELSE PutKey(session.m, KAskedFollowup,
                            JObj(PutKey(asked, DictGet(record, KTopicId).s, JBool(TRUE))))
  IN JObj(PutKey(marked, KAnswers,
                 JArr(IF idx = 0 THEN Append(answers, record)
                      ELSE [answers EXCEPT ![idx] = record])))

\* session["answers"].append(record) / session["answers"][idx] = record
put_record(session, idx, record) ==
  LET answers == GetKey(session.m, KAnswers).a
  IN JObj(PutKey(session.m, KAnswers,
                 JArr(IF idx = 0 THEN Append(answers, record)
                      ELSE [answers EXCEPT ![idx] = record])))

\* read_session whose default session has only the answers list
read_session_bare(fs, session_path, io) ==
  IF fs[session_path].exists THEN read_json(fs, session_path, io)
  ELSE ParseOk(JObj(<< <<KAnswers, JArr(<<>>)>> >>), 0)

\* the session the tool starts from: ok = FALSE stands for the exception of
\* open() or json.load
read_session(fs, session_path, io) ==
  IF fs[session_path].exists THEN read_json(fs, session_path, io)
  ELSE ParseOk(EmptySession, 0)

\* update_session_append_answer that writes the file only when it appended a
\* record, and returns a replacement without writing it
update_session_append_answer_unsaved(fs, session_path, a, io) ==
  LET s == read_session(fs, session_path, io)
  IN IF ~s.ok THEN [fs |-> fs, res |-> ErrorResult("exception")]
     ELSE LET f == find_idx(s.val, a.topic_id, a.question_id)
          IN IF f.raised THEN [fs |-> fs, res |-> ErrorResult("exception")]
             ELSE LET session == put_record(s.val, f.idx, make_record(a))
                      w == IF f.idx = 0 THEN write_json(fs, session_path, session, io)
                           ELSE [fs |-> fs, ok |-> TRUE]
                  IN [fs |-> w.fs,
                      res |-> IF w.ok
                              THEN [status |-> "success", data |-> session]
                              ELSE ErrorResult("exception")]

\* update_session_append_answer with _find_idx called outside the try block:
\* its KeyError, TypeError or AttributeError reaches the caller
update_session_append_answer_uncaught(fs, session_path, a, io) ==
  LET s == read_session(fs, session_path, io)
  IN IF ~s.ok THEN [fs |-> fs, res |-> ErrorResult("exception")]
     ELSE LET f == find_idx(s.val, a.topic_id, a.question_id)
          IN IF f.raised THEN [fs |-> fs, res |-> [status |-> "raised"]]
             ELSE LET session == put_record(s.val, f.idx, make_record(a))
                      w == write_json(fs, session_path, session, io)
                  IN [fs |-> w.fs,
                      res |-> IF w.ok
                              THEN [status |-> "success", data |-> session]
                              ELSE ErrorResult("exception")]

update_session_append_answer(fs, session_path, a, io) ==
  LET s == read_session(fs, session_path, io)
  IN IF ~s.ok THEN [fs |-> fs, res |-> ErrorResult("exception")]
     ELSE LET f == find_idx(s.val, a.topic_id, a.question_id)
          IN IF f.raised THEN [fs |-> fs, res |-> ErrorResult("exception")]
             ELSE LET session == put_record(s.val, f.idx, make_record(a))
                      w == write_json(fs, session_path, session, io)
                  IN [fs |-> w.fs,
                      res |-> IF w.ok
                              THEN [status |-> "success", data |-> session]
                              ELSE ErrorResult("exception")]

(***************************************************************************)
(* Inputs                                                                  *)
(***************************************************************************)
TopicIds == {<<"T", "1">>, <<"T", "2">>}
QuestionIds == {<<"Q", "1">>, <<"Q", "2">>}
OriginalAnswers == {<<"A">>, <<"B">>, <<" ", "B", "\n">>}
FollowupAnswers == {JNull, JStr(<<>>), JStr(<<"C", " ">>)}
Partial == JObj(<< <<KCompleteness, JStr(<<"p", "a", "r", "t", "i", "a", "l">>)>> >>)
Rated == JObj(<< <<<<"s", "c", "o", "r", "e">>, JNum(3)>> >>)
Ratings == {JNull, Rated}

\* the default session of the coordinator's instructions, as compact text
DefaultSessionText ==
  <<"{", "\"", "c", "u", "r", "r", "e", "n", "t", "_", "t", "o", "p", "i", "c", "_", "i", "n", "d", "e", "x", "\"", ":", " ", "0", ",", " ", "\"", "a", "s", "k", "e", "d", "_", "f", "o", "l", "l", "o", "w", "u", "p", "_", "f", "o", "r", "_", "t", "o", "p", "i", "c", "\"", ":", " ", "{", "}", ",", " ", "\"", "a", "n", "s", "w", "e", "r", "s", "\"", ":", " ", "[", "]", "}">>

\* a session with two records for T1/Q1 (answers "A" and "B"), as compact text
DuplicateSessionText ==
  <<"{", "\"", "c", "u", "r", "r", "e", "n", "t", "_", "t", "o", "p", "i", "c", "_", "i", "n", "d", "e", "x", "\"", ":", " ", "0", ",", " ", "\"", "a", "s", "k", "e", "d", "_", "f", "o", "l", "l", "o", "w", "u", "p", "_", "f", "o", "r", "_", "t", "o", "p", "i", "c", "\"", ":", " ", "{", "}", ",", " ", "\"", "a", "n", "s", "w", "e", "r", "s", "\"", ":", " ", "[", "{", "\"", "t", "o", "p", "i", "c", "_", "i", "d", "\"", ":", " ", "\"", "T", "1", "\"", ",", " ", "\"", "q", "u", "e", "s", "t", "i", "o", "n", "_", "i", "d", "\"", ":", " ", "\"", "Q", "1", "\"", ",", " ", "\"", "o", "r", "i", "g", "i", "n", "a", "l", "_", "a", "n", "s", "w", "e", "r", "\"", ":", " ", "\"", "A", "\"", ",", " ", "\"", "f", "o", "l", "l", "o", "w", "u", "p", "_", "a", "n", "s", "w", "e", "r", "\"", ":", " ", "n", "u", "l", "l", ",", " ", "\"", "f", "i", "n", "a", "l", "_", "a", "n", "s", "w", "e", "r", "\"", ":", " ", "\"", "A", "\"", ",", " ", "\"", "c", "o", "m", "p", "l", "e", "t", "e", "n", "e", "s", "s", "\"", ":", " ", "{", "\"", "c", "o", "m", "p", "l", "e", "t", "e", "n", "e", "s", "s", "\"", ":", " ", "\"", "p", "a", "r", "t", "i", "a", "l", "\"", "}", ",", " ", "\"", "r", "a", "t", "i", "n", "g", "\"", ":", " ", "n", "u", "l", "l", "}", ",", " ", "{", "\"", "t", "o", "p", "i", "c", "_", "i", "d", "\"", ":", " ", "\"", "T", "1", "\"", ",", " ", "\"", "q", "u", "e", "s", "t", "i", "o", "n", "_", "i", "d", "\"", ":", " ", "\"", "Q", "1", "\"", ",", " ", "\"", "o", "r", "i", "g", "i", "n", "a", "l", "_", "a", "n", "s", "w", "e", "r", "\"", ":", " ", "\"", "B", "\"", ",", " ", "\"", "f", "o", "l", "l", "o", "w", "u", "p", "_", "a", "n", "s", "w", "e", "r", "\"", ":", " ", "n", "u", "l", "l", ",", " ", "\"", "f", "i", "n", "a", "l", "_", "a", "n", "s", "w", "e", "r", "\"", ":", " ", "\"", "B", "\"", ",", " ", "\"", "c", "o", "m", "p", "l", "e", "t", "e", "n", "e", "s", "s", "\"", ":", " ", "{", "\"", "c", "o", "m", "p", "l", "e", "t", "e", "n", "e", "s", "s", "\"", ":", " ", "\"", "p", "a", "r", "t", "i", "a", "l", "\"", "}", ",", " ", "\"", "r", "a", "t", "i", "n", "g", "\"", ":", " ", "n", "u", "l", "l", "}", "]", "}">>

\* a plan with a repeated key, an escape and irregular whitespace:
\* { "role":"dev" ,"role": "q\na",<newline>"topics":[ 10,true , null,{ },-5 ] }
PlanText ==
  <<"{", " ", "\"", "r", "o", "l", "e", "\"", ":", "\"", "d", "e", "v", "\"", " ", ",", "\"", "r", "o", "l", "e", "\"", ":", " ", "\"", "q", "\\", "n", "a", "\"", ",", "\n", "\"", "t", "o", "p", "i", "c", "s", "\"", ":", "[", " ", "1", "0", ",", "t", "r", "u", "e", " ", ",", " ", "n", "u", "l", "l", ",", "{", " ", "}", ",", "-", "5", " ", "]", " ", "}">>

\* a session without an answers list: {"current_topic_index":1}
NoAnswersText ==
  <<"{", "\"", "c", "u", "r", "r", "e", "n", "t", "_", "t", "o", "p", "i", "c", "_", "i", "n", "d", "e", "x", "\"", ":", "1", "}">>

\* a Python dict repr, which is not JSON: {'answers': []}
PythonReprText ==
  <<"{", "'", "a", "n", "s", "w", "e", "r", "s", "'", ":", " ", "[", "]", "}">>

\* a truncated document: {"answers": [
TruncatedText ==
  <<"{", "\"", "a", "n", "s", "w", "e", "r", "s", "\"", ":", " ", "[">>

\* a document with the constants json accepts beyond JSON:
\* [NaN, -Infinity, Infinity]
NonFiniteText ==
  <<"[", "N", "a", "N", ",", " ", "-", "I", "n", "f", "i", "n", "i", "t", "y", ",", " ", "I", "n", "f", "i", "n", "i", "t", "y", "]">>

\* a session with a constant that JSON does not have:
\* {"answers": [], "score": NaN}
NonFiniteSessionText ==
  <<"{", "\"", "a", "n", "s", "w", "e", "r", "s", "\"", ":", " ", "[", "]", ",", " ", "\"", "s", "c", "o", "r", "e", "\"", ":", " ", "N", "a", "N", "}">>

\* a session whose answers are not a list: {"answers": ""}
AnswersNotListText ==
  <<"{", "\"", "a", "n", "s", "w", "e", "r", "s", "\"", ":", " ", "\"", "\"", "}">>

\* a session in progress, the follow-up of T1 asked:
\* {"current_topic_index": 1, "asked_followup_for_topic": {"T1": true}, "answers": []}
ProgressSessionText ==
  <<"{", "\"", "c", "u", "r", "r", "e", "n", "t", "_", "t", "o", "p", "i", "c", "_", "i", "n", "d", "e", "x", "\"", ":", " ", "1", ",", " ", "\"", "a", "s", "k", "e", "d", "_", "f", "o", "l", "l", "o", "w", "u", "p", "_", "f", "o", "r", "_", "t", "o", "p", "i", "c", "\"", ":", " ", "{", "\"", "T", "1", "\"", ":", " ", "t", "r", "u", "e", "}", ",", " ", "\"", "a", "n", "s", "w", "e", "r", "s", "\"", ":", " ", "[", "]", "}">>

NoArgs == MergeArgs(<<>>, <<>>, <<>>, JNull, JNull, JNull)

\* the longest answers list a call may append to
MaxAnswers == 2

(***************************************************************************)
(* server.py: the agents by name, one session service and one runner per   *)
(* agent, and the two endpoints.  A session service is a function from     *)
(* (user id, session id) to the session stored under it, if any; the       *)
(* conversational state of a session is the list of events the runner      *)
(* appended to it.                                                         *)
(***************************************************************************)
\* the keys of the dict agents
agents ==
  {"resume_evaluator_agent", "main_interviewer_agent", "interview_planner_agent",
   "answers_completness_evaluator_agent", "answer_rating_evaluator_agent",
   "candidate_evaluator_agent"}

\* the keys of the dict runners: one Runner per agent
runners == agents

UserIds == {"u1"}

SessionIds == {"s1", "s2"}

SessionKeys == UserIds \X SessionIds

NoSession == [exists |-> FALSE, events |-> <<>>]

\* session_services: one InMemorySessionService per agent, empty
session_services == [name \in agents |-> [k \in SessionKeys |-> NoSession]]

\* str.lower() on one character
UpperCase == <<"A", "B", "C", "D", "E", "F", "G", "H", "I", "J", "K", "L", "M",
               "N", "O", "P", "Q", "R", "S", "T", "U", "V", "W", "X", "Y", "Z">>

LowerCase == <<"a", "b", "c", "d", "e", "f", "g", "h", "i", "j", "k", "l", "m",
               "n", "o", "p", "q", "r", "s", "t", "u", "v", "w", "x", "y", "z">>

lower(s) ==
  [i \in 1..Len(s) |->
     IF \E k \in 1..26 : UpperCase[k] = s[i]
     THEN LowerCase[CHOOSE k \in 1..26 : UpperCase[k] = s[i]]
     ELSE s[i]]

\* w in s
Contains(s, w) == \E i \in 1..(Len(s) + 1) : StartsWith(s, i, w)

\* the message of the error create_session raises for an id that is taken
AlreadyExistsMessage ==
  <<"S", "e", "s", "s", "i", "o", "n", " ", "A", "l", "r", "e", "a", "d", "y", " ", "E", "x", "i", "s", "t", "s">>

\* the message of a failure of the session service that is not about the id
FailureMessage ==
  <<"s", "e", "r", "v", "i", "c", "e", " ", "u", "n", "a", "v", "a", "i", "l", "a", "b", "l", "e">>

\* what the session service does with a call: "none" for its own behaviour,
\* "failure" for a failure that is not about the id
ServiceFaults == {"none", "failure"}

\* service.create_session(app_name, user_id, session_id): the session is
\* created empty, or an exception is raised (raised = TRUE, with its message)
\* and the service is as before
create_session(service, user_id, session_id, fault) ==
  IF fault = "failure"
  THEN [service |-> service, raised |-> TRUE, message |-> FailureMessage]
  ELSE IF service[<<user_id, session_id>>].exists
    THEN [service |-> service, raised |-> TRUE, message |-> AlreadyExistsMessage]
  ELSE [service |-> [service EXCEPT ![<<user_id, session_id>>] =
                       [exists |-> TRUE, events |-> <<>>]],
        raised |-> FALSE, message |-> <<>>]

\* ensure_session that re-raises nothing: every exception of create_session
\* is ignored
ensure_session_ignore_all(services, app_name, user_id, session_id, fault) ==
  IF app_name \notin DOMAIN services
  THEN [services |-> services, raised |-> TRUE]
  ELSE LET c == create_session(services[app_name], user_id, session_id, fault)
       IN [services |-> [services EXCEPT ![app_name] = c.service], raised |-> FALSE]

\* ensure_session that tolerates no exception of create_session
ensure_session_strict(services, app_name, user_id, session_id, fault) ==
  IF app_name \notin DOMAIN services
  THEN [services |-> services, raised |-> TRUE]
  ELSE LET c == create_session(services[app_name], user_id, session_id, fault)
       IN [services |-> [services EXCEPT ![app_name] = c.service],
           raised |-> c.raised]

\* ensure_session: session_services[app_name] raises KeyError for a name
\* that is no agent; an exception of create_session is re-raised unless its
\* message, in lower case, contains "exist"
ensure_session(services, app_name, user_id, session_id, fault) ==
  IF app_name \notin DOMAIN services
  THEN [services |-> services, raised |-> TRUE]
  ELSE LET c == create_session(services[app_name], user_id, session_id, fault)
       IN [services |-> [services EXCEPT ![app_name] = c.service],
           raised |-> c.raised
                      /\ ~Contains(lower(c.message), <<"e", "x", "i", "s", "t">>)]

\* body.app_name not in runners, for every name
is_unknown_never(app_name) == FALSE

\* body.app_name not in runners
is_unknown(app_name) == app_name \notin runners

\* the events a runner yields
Events == {"e1", "e2"}

\* ev.model_dump()
model_dump(ev) == [dict |-> ev]

\* ev.model_dump_json()
model_dump_json(ev) == [json |-> ev]

\* f"data: {ev.model_dump_json()}\n\n"
sse_frame(ev) == <<"data: ", model_dump_json(ev), "\n\n">>

\* run that returns only the last event it received
collect_final_only(events, ev) == <<model_dump(ev)>>

\* events.append(ev.model_dump())
collect(events, ev) == Append(events, model_dump(ev))

\* the most events one runner call yields
MaxEvents == 2

\* the requests served concurrently
Requests == {1, 2}

\* the app_name values requested: an agent and a name that is no agent
AppNames == {"main_interviewer_agent", "main_interviewer"}

\* a request not yet received
NoRequest ==
  [pc |-> "idle", endpoint |-> "none", app_name |-> "none", userId |-> "u1",
   sessionId |-> "s1", events |-> <<>>, produced |-> <<>>, ensured |-> 0,
   existed |-> FALSE, invoked |-> 0, with_session |-> TRUE, failed |-> FALSE,
   response |-> [status |-> 0, events |-> <<>>, chunks |-> <<>>, complete |-> FALSE]]

(***************************************************************************)
(* State: the files; the last call made in sequence, with its result and   *)
(* the files as they were when it was made; and, for two calls of the      *)
(* merge tool that run concurrently, where each is (pc), what it holds     *)
(* (loc: its arguments, the session it read, the session it writes and     *)
(* its result) and which wrote last (last, 0 for none); the session        *)
(* services of the server (sessions) and the requests it serves (req)      *)
(***************************************************************************)
VARIABLES fs, pre, op, res, pc, loc, last, sessions, req

vars == <<fs, pre, op, res, pc, loc, last, sessions, req>>

\* the state of the tools and the state of the server
tools == <<fs, pre, op, res, pc, loc, last>>

server == <<sessions, req>>

Procs == {1, 2}

IdleLoc == [args |-> NoArgs, base |-> JNull, session |-> JNull,
            res |-> [status |-> "none"]]

Call(name, path, text, args, io) ==
  [name |-> name, path |-> path, text |-> text, args |-> args, io |-> io]

Init ==
  /\ fs = [p \in Paths |-> NoFile]
  /\ pre = fs
  /\ op = Call("none", SessionPath, <<>>, NoArgs, "ok")
  /\ res = [status |-> "none"]
  /\ pc = [p \in Procs |-> "idle"]
  /\ loc = [p \in Procs |-> IdleLoc]
  /\ last = 0
  /\ sessions = session_services
  /\ req = [r \in Requests |-> NoRequest]

Returns(name, path, text, args, io, out) ==
  /\ pre' = fs
  /\ op' = Call(name, path, text, args, io)
  /\ fs' = out.fs
  /\ res' = out.res
  /\ UNCHANGED <<pc, loc, last, server>>

LoadJsonFile(paths) ==
  \E path \in paths, io \in {"ok", "read_error"} :
    Returns("load_json_file", path, <<>>, NoArgs, io, load_json_file(fs, path, io))

SaveJsonFile(paths, texts) ==
  \E path \in paths, data_json \in texts, io \in WriteOutcomes :
    Returns("save_json_file", path, data_json, NoArgs, io,
            save_json_file(fs, data_json, path, io))

SaveQuestionsToFile(paths, texts) ==
  \E filename \in paths, questions \in texts, io \in WriteOutcomes :
    Returns("save_questions_to_file", filename, questions, NoArgs, io,
            save_questions_to_file(fs, questions, filename, io))

\* the answers list of the session in a file, <<>> when there is none
AnswersIn(file) ==
  LET r == json_loads(file.text)
  IN IF file.exists /\ r.ok /\ r.val.t = "obj" /\ HasKey(r.val.m, KAnswers)
        /\ GetKey(r.val.m, KAnswers).t = "arr"
     THEN GetKey(r.val.m, KAnswers).a ELSE <<>>

\* the list has a record that _find_idx matches
HasRecord(answers, topic_id, question_id) ==
  \E i \in 1..Len(answers) :
    answers[i].t = "obj" /\ RecMatches(answers[i], topic_id, question_id)

\* a call of the tool on the session file; a call that would make the list
\* longer than MaxAnswers is left out
UpdateSessionAppendAnswer(topics, questions, originals, followups, ratings, ios) ==
  \E answers \in {AnswersIn(fs[SessionPath])} :
    \E topic_id \in topics, question_id \in questions, original_answer \in originals,
       followup_answer \in followups, rating \in ratings, io \in ios :
      /\ IF Len(answers) < MaxAnswers THEN TRUE
         ELSE HasRecord(answers, topic_id, question_id)
      /\ Returns("update_session_append_answer", SessionPath, <<>>,
                 MergeArgs(topic_id, question_id, original_answer, followup_answer,
                           Partial, rating),
                 io,
                 update_session_append_answer(
                   fs, SessionPath,
                   MergeArgs(topic_id, question_id, original_answer, followup_answer,
                             Partial, rating),
                   io))

(***************************************************************************)
(* Spec: the plan/session store, both files                                *)
(***************************************************************************)
StoreTexts ==
  {DefaultSessionText, PlanText, PythonReprText, TruncatedText, NonFiniteText}

Next ==
  \/ LoadJsonFile(Paths)
  \/ SaveJsonFile(Paths, StoreTexts)
  \/ SaveQuestionsToFile({PlanPath}, StoreTexts)

Spec == Init /\ [][Next]_vars

(***************************************************************************)
(* MergeSpec: calls of the merge tool only, starting without a session file *)
(***************************************************************************)
MergeNext ==
  UpdateSessionAppendAnswer(TopicIds, QuestionIds, {<<"A">>, <<"B">>}, {JNull},
                            {JNull}, {"ok", "write_error"})

MergeSpec == Init /\ [][MergeNext]_vars

(***************************************************************************)
(* SessionSpec: the session file written through save_json_file and        *)
(* through the merge tool, with every outcome of the operating system      *)
(***************************************************************************)
SessionTexts ==
  {DefaultSessionText, DuplicateSessionText, NoAnswersText, TruncatedText}

SessionNext ==
  \/ SaveJsonFile({SessionPath}, SessionTexts)
  \/ UpdateSessionAppendAnswer(TopicIds, {<<"Q", "1">>}, {<<"A">>, <<"B">>}, {JNull},
                               {JNull}, IoOutcomes)

SessionSpec == Init /\ [][SessionNext]_vars

(***************************************************************************)
(* ToolsSpec: the three tools of the coordinator on the session file, with *)
(* every outcome of the operating system and with session documents that  *)
(* are malformed in each way a document can be                             *)
(***************************************************************************)
ToolsTexts ==
  {DefaultSessionText, NoAnswersText, AnswersNotListText, NonFiniteSessionText,
   TruncatedText}

ToolsNext ==
  \/ LoadJsonFile({SessionPath})
  \/ SaveJsonFile({SessionPath}, ToolsTexts)
  \/ UpdateSessionAppendAnswer(TopicIds, {<<"Q", "1">>}, {<<"A">>}, {JNull}, {JNull},
                               IoOutcomes)

ToolsSpec == Init /\ [][ToolsNext]_vars

(***************************************************************************)
(* FrameSpec: merges, with and without a follow-up answer, into a session  *)
(* in progress that save_json_file wrote                                   *)
(***************************************************************************)
FrameNext ==
  \/ SaveJsonFile({SessionPath}, {ProgressSessionText})
  \/ UpdateSessionAppendAnswer(TopicIds, {<<"Q", "1">>}, {<<"A">>, <<"B">>},
                               {JNull, JStr(<<"C", " ">>)}, {JNull}, {"ok"})

FrameSpec == Init /\ [][FrameNext]_vars

(***************************************************************************)
(* AnswerSpec: calls of the merge tool for one question, with every        *)
(* combination of answer, follow-up answer and rating                      *)
(***************************************************************************)
AnswerNext ==
  UpdateSessionAppendAnswer({<<"T", "1">>}, {<<"Q", "1">>}, OriginalAnswers,
                            FollowupAnswers, Ratings, {"ok"})

AnswerSpec == Init /\ [][AnswerNext]_vars

(***************************************************************************)
(* ConcSpec: two calls of the merge tool on the session file that run      *)
(* concurrently.  A call touches the file four times: os.path.exists,      *)
(* open(path, "r") with json.load, open(path, "w"), and the write of the   *)
(* text json.dump produced when the file is closed; nothing orders these   *)
(* steps of one call with those of the other.                              *)
(***************************************************************************)
\* the session a call writes, from the session it read: ok = FALSE stands for
\* the exception of session["answers"] or rec.get
merged_session(base, a) ==
  LET f == find_idx(base, a.topic_id, a.question_id)
  IN IF f.raised THEN ParseFail
     ELSE ParseOk(put_record(base, f.idx, make_record(a)), 0)

\* the file after text is written at its start through a descriptor of its
\* own: what another descriptor wrote beyond the end of text stays
write_at_start(old, text) == text \o SubSeq(old, Len(text) + 1, Len(old))

ConcStep(p, to, l) ==
  /\ pc' = [pc EXCEPT ![p] = to]
  /\ loc' = [loc EXCEPT ![p] = l]
  /\ UNCHANGED <<pre, op, res, server>>

\* the call is made
ConcCall(p) ==
  /\ pc[p] = "idle"
  /\ \E topic_id \in TopicIds, original_answer \in {<<"A">>, <<" ", "B", "\n">>} :
       ConcStep(p, "exists",
                [loc[p] EXCEPT !.args = MergeArgs(topic_id, <<"Q", "1">>, original_answer,
                                                  JNull, Partial, JNull)])
  /\ UNCHANGED <<fs, last>>

\* if os.path.exists(session_path): ... else: session = {...}
ConcExists(p) ==
  /\ pc[p] = "exists"
  /\ IF fs[SessionPath].exists
     THEN ConcStep(p, "load", loc[p])
     ELSE ConcStep(p, "open",
                   [loc[p] EXCEPT !.base = EmptySession,
                                  !.session = merged_session(EmptySession, loc[p].args).val])
  /\ UNCHANGED <<fs, last>>

\* session = json.load(f), then _find_idx and the append or replacement
ConcLoad(p) ==
  /\ pc[p] = "load"
  /\ \E r \in {read_json(fs, SessionPath, "ok")} :
       \E s \in {IF r.ok THEN merged_session(r.val, loc[p].args) ELSE ParseFail} :
         IF s.ok
         THEN ConcStep(p, "open", [loc[p] EXCEPT !.base = r.val, !.session = s.val])
         ELSE ConcStep(p, "done", [loc[p] EXCEPT !.res = ErrorResult("exception")])
  /\ UNCHANGED <<fs, last>>

\* open(session_path, "w") truncates the file
ConcOpen(p) ==
  /\ pc[p] = "open"
  /\ fs' = [fs EXCEPT ![SessionPath] = FileOf(<<>>)]
  /\ ConcStep(p, "dump", loc[p])
  /\ UNCHANGED last

\* json.dump(session, f, ...), written when the file is closed, and
\* return {"status": "success", "data": session}
ConcDump(p) ==
  /\ pc[p] = "dump"
  /\ fs' = [fs EXCEPT ![SessionPath] =
              FileOf(write_at_start(fs[SessionPath].text, json_dump(loc[p].session)))]
  /\ last' = p
  /\ ConcStep(p, "done",
              [loc[p] EXCEPT !.res = [status |-> "success", data |-> loc[p].session]])

ConcNext ==
  \E p \in Procs :
    \/ ConcCall(p)
    \/ ConcExists(p)
    \/ ConcLoad(p)
    \/ ConcOpen(p)
    \/ ConcDump(p)

ConcSpec == Init /\ [][ConcNext]_vars

(***************************************************************************)
(* ServerSpec: requests to /run and /run_sse served concurrently, one task *)
(* per request.  A task gives way to the others where the handler awaits:  *)
(* at ensure_session and at every step of the runner's async generator.    *)
(* Besides the handler's variables a request records what happened to it:  *)
(* the events the runner yielded (produced), how often ensure_session was  *)
(* called (ensured) and whether the session was there before (existed),    *)
(* how often the runner was called (invoked) and whether the session was   *)
(* there then (with_session), and whether the runner raised (failed).      *)
(***************************************************************************)
\* the session of the request in the service of its agent
SessionOf(r) == sessions[req[r].app_name][<<req[r].userId, req[r].sessionId>>]

Respond(status, events) ==
  [status |-> status, events |-> events, chunks |-> <<>>, complete |-> TRUE]

\* the request arrives: POST /run or POST /run_sse with a RunBody
Receive(r) ==
  /\ req[r].pc = "idle"
  /\ \E endpoint \in {"run", "run_sse"}, app_name \in AppNames, sessionId \in SessionIds :
       req' = [req EXCEPT ![r] = [@ EXCEPT !.pc = "check", !.endpoint = endpoint,
                                            !.app_name = app_name,
                                            !.sessionId = sessionId]]
  /\ UNCHANGED <<sessions, tools>>

\* if body.app_name not in runners: raise HTTPException(status_code=400, ...)
CheckAppName(r) ==
  /\ req[r].pc = "check"
  /\ req' = [req EXCEPT ![r] =
               IF is_unknown(req[r].app_name)
               THEN [@ EXCEPT !.pc = "done", !.response = Respond(400, <<>>)]
               ELSE [@ EXCEPT !.pc = "ensure"]]
  /\ UNCHANGED <<sessions, tools>>

\* await ensure_session(...): an exception it raises ends the request with
\* status 500; otherwise run goes on to call the runner, and run_sse returns
\* the StreamingResponse, whose status 200 is sent before event_stream() runs
EnsureSession(r) ==
  /\ req[r].pc = "ensure"
  /\ \E fault \in ServiceFaults :
       \E out \in {ensure_session(sessions, req[r].app_name, req[r].userId,
                                  req[r].sessionId, fault)} :
         /\ sessions' = out.services
         /\ req' = [req EXCEPT ![r] =
                      [@ EXCEPT !.ensured = @ + 1,
                                !.existed = req[r].app_name \in DOMAIN sessions
                                            /\ SessionOf(r).exists,
                                !.pc = IF out.raised THEN "done" ELSE "invoke",
                                !.response =
                                  IF out.raised THEN Respond(500, <<>>)
                                  ELSE IF req[r].endpoint = "run_sse"
                                    THEN [@ EXCEPT !.status = 200]
                                  ELSE @]]
  /\ UNCHANGED tools

\* the runner raised: run ends with status 500 and the events it collected
\* are dropped; the stream of run_sse, begun with status 200, breaks off
Raised(q) ==
  [q EXCEPT !.pc = "done", !.failed = TRUE,
            !.response = IF q.endpoint = "run" THEN Respond(500, <<>>)
                         ELSE q.response]

\* runners[body.app_name].run_async(...) is called and runs to its first
\* await: it raises if the session is not in the service
InvokeRunner(r) ==
  /\ req[r].pc = "invoke"
  /\ req' = [req EXCEPT ![r] =
               IF req[r].app_name \in DOMAIN sessions /\ SessionOf(r).exists
               THEN [@ EXCEPT !.pc = "iterate", !.invoked = @ + 1,
                              !.with_session = TRUE]
               ELSE Raised([@ EXCEPT !.invoked = @ + 1, !.with_session = FALSE])]
  /\ UNCHANGED <<sessions, tools>>

\* async for ev in ...: the runner appends an event to the session and
\* yields it; run collects it (line 73), run_sse sends its frame (line 89)
YieldEvent(r) ==
  /\ req[r].pc = "iterate"
  /\ Len(req[r].produced) < MaxEvents
  /\ \E ev \in Events :
       /\ req' = [req EXCEPT ![r] =
                    [@ EXCEPT !.produced = Append(@, ev),
                              !.events = IF req[r].endpoint = "run"
                                         THEN collect(@, ev) ELSE @,
                              !.response =
                                IF req[r].endpoint = "run_sse"
                                THEN [@ EXCEPT !.chunks = Append(@, sse_frame(ev))]
                                ELSE @]]
       /\ sessions' = [sessions EXCEPT
                         ![req[r].app_name][<<req[r].userId, req[r].sessionId>>].events =
                           Append(@, ev)]
  /\ UNCHANGED tools

\* the generator is exhausted: return {"events": events}, or the end of the
\* stream
Finish(r) ==
  /\ req[r].pc = "iterate"
  /\ req' = [req EXCEPT ![r] =
               [@ EXCEPT !.pc = "done",
                         !.response = IF req[r].endpoint = "run"
                                      THEN Respond(200, req[r].events)
                                      ELSE [@ EXCEPT !.complete = TRUE]]]
  /\ UNCHANGED <<sessions, tools>>

\* the runner raises while it is iterated
RunnerFails(r) ==
  /\ req[r].pc = "iterate"
  /\ req' = [req EXCEPT ![r] = Raised(@)]
  /\ UNCHANGED <<sessions, tools>>

ServerNext ==
  \E r \in Requests :
    \/ Receive(r)
    \/ CheckAppName(r)
    \/ EnsureSession(r)
    \/ InvokeRunner(r)
    \/ YieldEvent(r)
    \/ Finish(r)
    \/ RunnerFails(r)

ServerSpec == Init /\ [][ServerNext]_vars

(***************************************************************************)
(* Properties                                                              *)
(***************************************************************************)
\* the call that returned last is a merge that returned success
MergeOk == op.name = "update_session_append_answer" /\ res.status = "success"

\* the answers list on disk before and after the last call
OldAnswers == AnswersIn(pre[SessionPath])

NewAnswers == AnswersIn(fs[SessionPath])

\* the identity of a record
PairOf(rec) ==
  IF rec.t = "obj" THEN <<DictGet(rec, KTopicId), DictGet(rec, KQuestionId)>>
  ELSE <<JNull, JNull>>

\* no two records of the list have the same (topic_id, question_id) pair
NoDuplicatePairs(answers) ==
  \A i, j \in 1..Len(answers) : i < j => PairOf(answers[i]) # PairOf(answers[j])

\* the index of the first record of the pair
FirstIndex(answers, topic_id, question_id) ==
  CHOOSE i \in 1..Len(answers) :
    /\ PairOf(answers[i]) = <<JStr(topic_id), JStr(question_id)>>
    /\ \A j \in 1..(i - 1) : PairOf(answers[j]) # <<JStr(topic_id), JStr(question_id)>>

\* the record carries the values the call was given
IsRecordOf(rec, a) ==
  /\ rec.t = "obj"
  /\ DictGet(rec, KTopicId) = JStr(a.topic_id)
  /\ DictGet(rec, KQuestionId) = JStr(a.question_id)
  /\ DictGet(rec, KOriginalAnswer) = JStr(a.original_answer)
  /\ DictGet(rec, KFollowupAnswer) = a.followup_answer
  /\ DictGet(rec, KCompleteness) = a.completeness
  /\ DictGet(rec, KRating) = a.rating

\* C1: in every state of a run of merge calls that starts without a session
\* file, the answers list on disk, and the one a successful call returns, has
\* at most one record per (topic_id, question_id) pair.
C1_AtMostOneRecordPerPair ==
  /\ NoDuplicatePairs(NewAnswers)
  /\ MergeOk => NoDuplicatePairs(GetKey(res.data.m, KAnswers).a)

\* a merge for a pair that already had a record, into a list of two records
C1_Witness ==
  /\ MergeOk
  /\ Len(OldAnswers) = 2
  /\ HasRecord(OldAnswers, op.args.topic_id, op.args.question_id)
  /\ Len(NewAnswers) = 2

\* C3: a successful merge whose pair already has a record puts the new record
\* at the index of that record and keeps the length of the list; one whose
\* pair has no record puts the new record at the end of a list one longer.
\* Merging T1/Q1 with answer "B" into the list that holds only T1/Q1 with
\* answer "A" leaves exactly one record, whose answer is "B".
C3_ReplaceInPlaceOrAppend ==
  MergeOk =>
    /\ IF HasRecord(OldAnswers, op.args.topic_id, op.args.question_id)
       THEN /\ Len(NewAnswers) = Len(OldAnswers)
            /\ IsRecordOf(NewAnswers[FirstIndex(OldAnswers, op.args.topic_id,
                                                op.args.question_id)], op.args)
       ELSE /\ Len(NewAnswers) = Len(OldAnswers) + 1
            /\ IsRecordOf(NewAnswers[Len(NewAnswers)], op.args)
            /\ SubSeq(NewAnswers, 1, Len(OldAnswers)) = OldAnswers
    /\ ( /\ Len(OldAnswers) = 1
         /\ PairOf(OldAnswers[1]) = <<JStr(<<"T", "1">>), JStr(<<"Q", "1">>)>>
         /\ DictGet(OldAnswers[1], KOriginalAnswer) = JStr(<<"A">>)
         /\ op.args.topic_id = <<"T", "1">> /\ op.args.question_id = <<"Q", "1">>
         /\ op.args.original_answer = <<"B">> )
       => /\ Len(NewAnswers) = 1
          /\ DictGet(NewAnswers[1], KOriginalAnswer) = JStr(<<"B">>)
          /\ DictGet(NewAnswers[1], KFinalAnswer) = JStr(<<"B">>)

\* answer "B" merged over the first of two records, which held answer "A"
C3_Witness ==
  /\ MergeOk
  /\ Len(OldAnswers) = 2
  /\ Len(NewAnswers) = 2
  /\ PairOf(OldAnswers[1]) = <<JStr(op.args.topic_id), JStr(op.args.question_id)>>
  /\ DictGet(OldAnswers[1], KOriginalAnswer) = JStr(<<"A">>)
  /\ DictGet(NewAnswers[1], KOriginalAnswer) = JStr(<<"B">>)

\* the record on disk for the pair of the last call
StoredRecord ==
  NewAnswers[FirstIndex(NewAnswers, op.args.topic_id, op.args.question_id)]

\* s without its leading and trailing whitespace
Trimmed(s) ==
  LET keep == {i \in 1..Len(s) : s[i] \notin PyWhitespace}
  IN IF keep = {} THEN <<>>
     ELSE SubSeq(s, CHOOSE i \in keep : \A k \in keep : i <= k,
                    CHOOSE j \in keep : \A k \in keep : k <= j)

\* C4 as stated: a successful merge without a follow-up answer (null) stores
\* a final_answer equal to original_answer exactly.
C4_FinalEqualsOriginal ==
  (MergeOk /\ op.args.followup_answer = JNull)
    => DictGet(StoredRecord, KFinalAnswer) = JStr(op.args.original_answer)

\* C4 as amended: a successful merge without a follow-up answer (null) stores
\* a final_answer equal to original_answer without its leading and trailing
\* whitespace.
C4_FinalIsTrimmedOriginal ==
  (MergeOk /\ op.args.followup_answer = JNull)
    => DictGet(StoredRecord, KFinalAnswer) = JStr(Trimmed(op.args.original_answer))

\* " B\n" merged without a follow-up answer is stored with final_answer "B"
C4_Witness ==
  /\ MergeOk
  /\ op.args.followup_answer = JNull
  /\ op.args.original_answer = <<" ", "B", "\n">>
  /\ DictGet(StoredRecord, KFinalAnswer) = JStr(<<"B">>)

\* C5: a successful merge with a non-empty follow-up answer stores a
\* final_answer equal to original_answer, two newlines and followup_answer
\* joined, without the leading and trailing whitespace of the whole.
C5_FinalIsTrimmedJoin ==
  (MergeOk /\ op.args.followup_answer.t = "str" /\ op.args.followup_answer.s # <<>>)
    => DictGet(StoredRecord, KFinalAnswer)
         = JStr(Trimmed(op.args.original_answer \o <<"\n", "\n">>
                        \o op.args.followup_answer.s))

\* " B\n" merged with the follow-up answer "C " is stored as "B\n\n\nC"
C5_Witness ==
  /\ MergeOk
  /\ op.args.original_answer = <<" ", "B", "\n">>
  /\ op.args.followup_answer = JStr(<<"C", " ">>)
  /\ DictGet(StoredRecord, KFinalAnswer) = JStr(<<"B", "\n", "\n", "\n", "C">>)

\* the number of records of the list with the given pair
CountOf(answers, pair) == Cardinality({i \in 1..Len(answers) : PairOf(answers[i]) = pair})

AllPairs == {<<JStr(t), JStr(q)>> : t \in TopicIds, q \in QuestionIds}

\* C2 as stated: after a successful merge the answers list on disk has no two
\* records with the same pair, whatever session was on disk before.
C2_NoDuplicatesAfterMerge == MergeOk => NoDuplicatePairs(NewAnswers)

\* C2 as amended: after a successful merge the pair of the call has one
\* record if it had none and as many as before otherwise, and every other
\* pair has as many records as before; so the list has no duplicate pair if
\* the list on disk before the call had none.
C2_MergeAddsNoDuplicate ==
  MergeOk =>
    /\ \A pair \in AllPairs :
         CountOf(NewAnswers, pair)
           = IF pair = <<JStr(op.args.topic_id), JStr(op.args.question_id)>>
                  /\ CountOf(OldAnswers, pair) = 0
             THEN 1 ELSE CountOf(OldAnswers, pair)
    /\ NoDuplicatePairs(OldAnswers) => NoDuplicatePairs(NewAnswers)

\* a merge into the session that save_json_file wrote with two T1/Q1 records
C2_Witness ==
  /\ MergeOk
  /\ ~NoDuplicatePairs(OldAnswers)
  /\ CountOf(NewAnswers, <<JStr(<<"T", "1">>), JStr(<<"Q", "1">>)>>) = 2

\* the value holds NaN, Infinity or -Infinity, which JSON does not have
RECURSIVE HasNonFinite(_)
HasNonFinite(v) ==
  CASE v.t = "float" -> TRUE
    [] v.t = "arr" -> \E i \in 1..Len(v.a) : HasNonFinite(v.a[i])
    [] v.t = "obj" -> \E i \in 1..Len(v.m) : HasNonFinite(v.m[i][2])
    [] OTHER -> FALSE

\* the text is valid JSON: json.loads reads it, and it reads it without the
\* constants NaN, Infinity and -Infinity
ValidJson(text) == json_loads(text).ok /\ ~HasNonFinite(json_loads(text).val)

\* the last call is a save of text that is not valid JSON
InvalidSave ==
  /\ op.name \in {"save_json_file", "save_questions_to_file"}
  /\ ~ValidJson(op.text)

\* C6: after save_json_file of valid JSON text returned success,
\* load_json_file of the same path returns success with the document
\* json.loads gives for the text saved.
C6_SaveLoadRoundTrip ==
  (op.name = "save_json_file" /\ ValidJson(op.text) /\ res.status = "success")
    => load_json_file(fs, op.path, "ok").res
         = [status |-> "success", data |-> json_loads(op.text).val,
            error_message |-> ""]

\* the plan text, with its repeated key, escape and irregular whitespace, was
\* saved over an existing file and loads as the document with role "q\na"
C6_Witness ==
  /\ op.name = "save_json_file"
  /\ res.status = "success"
  /\ op.text = PlanText
  /\ pre[op.path].exists
  /\ GetKey(load_json_file(fs, op.path, "ok").res.data.m, <<"r", "o", "l", "e">>)
       = JStr(<<"q", "\n", "a">>)

\* C7: a save (save_json_file or save_questions_to_file) of text that is not
\* valid JSON returns an error and leaves every file as it was: same content,
\* and no file where there was none.
C7_InvalidSaveChangesNothing ==
  InvalidSave => (res.status = "error" /\ fs = pre)

\* C8: load_json_file of a path where no file exists returns status error
\* with data null and leaves the files as they were (none is created).
C8_LoadMissingFile ==
  (op.name = "load_json_file" /\ ~pre[op.path].exists)
    => /\ res = [status |-> "error", data |-> JNull, error_message |-> "File not found"]
       /\ fs = pre

\* a load of a missing path returned, and the path is still missing
C8_Witness ==
  /\ op.name = "load_json_file"
  /\ ~pre[op.path].exists
  /\ res.status = "error"
  /\ ~fs[op.path].exists

\* C9 as stated: after save_json_file has returned, with success or error,
\* the file holds its complete prior content or the complete new content.
C9_SaveLeavesPriorOrNew ==
  op.name = "save_json_file"
    => \/ fs[op.path] = pre[op.path]
       \/ /\ json_loads(op.text).ok
          /\ fs[op.path] = FileOf(json_dump(json_loads(op.text).val))

\* both concurrent calls have returned success
BothSucceeded ==
  \A p \in Procs : pc[p] = "done" /\ loc[p].res.status = "success"

\* the call that did not write last
OtherThan(p) == CHOOSE q \in Procs : q # p

\* the answers list of a session value
AnswersOf(session) == GetKey(session.m, KAnswers).a

\* C10: when two concurrent merge calls for different pairs both read the
\* session before either wrote it and both return success, the file, once
\* it holds a complete document, holds the session of the call that wrote
\* last: that call's record is in it and the other call's record is not,
\* while the other call's result is success with its own record in its data.
C10_LastWriterWins ==
  ( /\ BothSucceeded
    /\ loc[1].base = loc[2].base
    /\ loc[1].args.topic_id # loc[2].args.topic_id
    /\ json_loads(fs[SessionPath].text).ok )
  => /\ json_loads(fs[SessionPath].text).val = loc[last].session
     /\ HasRecord(NewAnswers, loc[last].args.topic_id, loc[last].args.question_id)
     /\ ~HasRecord(NewAnswers, loc[OtherThan(last)].args.topic_id,
                   loc[OtherThan(last)].args.question_id)
     /\ HasRecord(AnswersOf(loc[OtherThan(last)].res.data),
                  loc[OtherThan(last)].args.topic_id,
                  loc[OtherThan(last)].args.question_id)

\* both calls returned success and the file holds one record, the one of the
\* call that wrote last
C10_Witness ==
  /\ BothSucceeded
  /\ loc[1].args.topic_id # loc[2].args.topic_id
  /\ Len(NewAnswers) = 1
  /\ IsRecordOf(NewAnswers[1], loc[last].args)
  /\ Len(AnswersOf(loc[OtherThan(last)].res.data)) = 1
  /\ IsRecordOf(AnswersOf(loc[OtherThan(last)].res.data)[1], loc[OtherThan(last)].args)

\* the record a call with arguments a stores: every field from the call, the
\* final answer put together from its two answers
RecordOf(a) ==
  JObj(<< <<KTopicId, JStr(a.topic_id)>>,
          <<KQuestionId, JStr(a.question_id)>>,
          <<KOriginalAnswer, JStr(a.original_answer)>>,
          <<KFollowupAnswer, a.followup_answer>>,
          <<KFinalAnswer,
            JStr(Trimmed(IF a.followup_answer \in {JNull, JStr(<<>>)}
                         THEN a.original_answer
                         ELSE a.original_answer \o <<"\n", "\n">>
                              \o a.followup_answer.s))>>,
          <<KCompleteness, a.completeness>>,
          <<KRating, a.rating>> >>)

\* C11: a successful merge called when no file exists at the session path
\* returns, and writes, the session with current_topic_index 0, an empty
\* asked_followup_for_topic map and an answers list of exactly one record,
\* the one just merged.
C11_MergeWithoutFileStartsEmpty ==
  (MergeOk /\ ~pre[SessionPath].exists)
    => /\ res.data = JObj(<< <<KCurrentTopicIndex, JNum(0)>>,
                             <<KAskedFollowup, JObj(<<>>)>>,
                             <<KAnswers, JArr(<<RecordOf(op.args)>>)>> >>)
       /\ fs[SessionPath].exists
       /\ json_loads(fs[SessionPath].text) = ParseOk(res.data, Len(fs[SessionPath].text) + 1)

\* T2/Q1 was merged while there was no session file, and the file now holds
\* a session with that one record
C11_Witness ==
  /\ MergeOk
  /\ ~pre[SessionPath].exists
  /\ op.args.topic_id = <<"T", "2">>
  /\ Len(NewAnswers) = 1
  /\ PairOf(NewAnswers[1]) = <<JStr(<<"T", "2">>), JStr(<<"Q", "1">>)>>

\* C12: when a merge call has returned success, the session file holds the
\* complete document of the session in the result's data; this holds after
\* every call, whether it appended or replaced a record.
C12_SuccessMeansWritten ==
  MergeOk
    => /\ fs[SessionPath].exists
       /\ fs[SessionPath].text = json_dump(res.data)
       /\ json_loads(fs[SessionPath].text).ok
       /\ json_loads(fs[SessionPath].text).val = res.data

\* a merge replaced a record of a session that was on disk, and the file
\* changed with it
C12_Witness ==
  /\ MergeOk
  /\ HasRecord(OldAnswers, op.args.topic_id, op.args.question_id)
  /\ fs[SessionPath] # pre[SessionPath]
  /\ json_loads(fs[SessionPath].text).val = res.data

\* C20: a successful merge that replaces a record stores, at the index of the
\* old record, exactly the record of the later call: no field of the old
\* record is kept, so a null follow-up answer or a null rating of the later
\* call is stored as null whatever the old record held.
C20_ReplaceOverwritesWholeRecord ==
  (MergeOk /\ HasRecord(OldAnswers, op.args.topic_id, op.args.question_id))
    => /\ NewAnswers[FirstIndex(OldAnswers, op.args.topic_id, op.args.question_id)]
            = RecordOf(op.args)
       /\ op.args.rating = JNull => DictGet(StoredRecord, KRating) = JNull
       /\ op.args.followup_answer = JNull
            => DictGet(StoredRecord, KFollowupAnswer) = JNull

\* a record with a follow-up answer and a rating was replaced by a call with
\* neither, and both are gone
C20_Witness ==
  /\ MergeOk
  /\ Len(OldAnswers) = 1
  /\ DictGet(OldAnswers[1], KFollowupAnswer) = JStr(<<"C", " ">>)
  /\ DictGet(OldAnswers[1], KRating) = Rated
  /\ op.args.followup_answer = JNull
  /\ op.args.rating = JNull
  /\ Len(NewAnswers) = 1
  /\ DictGet(NewAnswers[1], KFollowupAnswer) = JNull
  /\ DictGet(NewAnswers[1], KRating) = JNull

\* the session document is malformed: it is not valid JSON, or it is valid
\* JSON without an answers list
Malformed(text) ==
  \/ ~ValidJson(text)
  \/ json_loads(text).val.t # "obj"
  \/ ~HasKey(json_loads(text).val.m, KAnswers)
  \/ GetKey(json_loads(text).val.m, KAnswers).t # "arr"

\* C13: load_json_file, save_json_file and update_session_append_answer
\* return, for every argument, file state and outcome of the operating
\* system, a result whose status is success or error; no exception reaches
\* the caller.
C13_ToolsNeverRaise ==
  op.name \in {"load_json_file", "save_json_file", "update_session_append_answer"}
    => res.status \in {"success", "error"}

\* a merge into a session document without an answers list returned an error
C13_Witness ==
  /\ op.name = "update_session_append_answer"
  /\ pre[SessionPath].exists
  /\ json_loads(pre[SessionPath].text).ok
  /\ Malformed(pre[SessionPath].text)
  /\ res.status = "error"

\* C14: a merge called while the session file exists and is malformed
\* returns an error and leaves the file as it was.
C14_MalformedSessionRejected ==
  ( /\ op.name = "update_session_append_answer"
    /\ pre[SessionPath].exists
    /\ Malformed(pre[SessionPath].text) )
  => (res.status = "error" /\ fs = pre)

\* the request is past the check of its app_name
Checked(r) == req[r].pc \notin {"idle", "check"}

\* the two requests name the same agent, user and session
SameTriple ==
  /\ req[1].app_name = req[2].app_name
  /\ req[1].userId = req[2].userId
  /\ req[1].sessionId = req[2].sessionId

\* C15: a request to /run or /run_sse whose app_name is no registered agent
\* is answered with status 400 at once: ensure_session is not called for it,
\* no runner is called for it, and every session of every session service
\* was created for a request that names a registered agent.
C15_UnknownAppNameRejected ==
  /\ \A r \in Requests :
       (Checked(r) /\ req[r].app_name \notin agents)
         => /\ req[r].pc = "done"
            /\ req[r].response.status = 400
            /\ req[r].ensured = 0
            /\ req[r].invoked = 0
            /\ req[r].produced = <<>>
  /\ \A name \in agents, k \in SessionKeys :
       sessions[name][k].exists
         => \E r \in Requests :
              /\ req[r].app_name = name
              /\ <<req[r].userId, req[r].sessionId>> = k
              /\ req[r].ensured = 1

\* a request to /run_sse with an unknown name was answered with 400 while
\* the other request, to a registered agent, had its session created
C15_Witness ==
  \E r \in Requests :
    /\ req[r].endpoint = "run_sse"
    /\ req[r].app_name \notin agents
    /\ req[r].pc = "done"
    /\ req[r].response.status = 400
    /\ \E q \in Requests : req[q].app_name \in agents /\ req[q].invoked = 1

\* C16: whenever the runner has been called for a request, ensure_session
\* had returned for it and the session of its (agent, user, session id) was
\* in the agent's session service at the call, and is there still.
C16_SessionExistsBeforeRunner ==
  \A r \in Requests :
    req[r].invoked > 0
      => /\ req[r].ensured = 1
         /\ req[r].with_session
         /\ SessionOf(r).exists

\* two interleaved requests for the same triple: the runner has been called
\* for both, the second of them having found the session in place
C16_Witness ==
  /\ SameTriple
  /\ req[1].invoked = 1 /\ req[2].invoked = 1
  /\ req[1].pc = "iterate" /\ req[2].pc = "iterate"
  /\ req[2].existed /\ ~req[1].existed

\* C17: in every state of the server, ensure_session for a triple (of an
\* agent that requests name) whose session exists returns without an exception and leaves every session
\* service as it is; for any triple, a second call after a first changes
\* nothing more and gives the same result; and a failure of create_session
\* that is not about an existing session is raised to the caller, the
\* services unchanged.
C17_EnsureSessionIdempotent ==
  \A name \in AppNames \cap agents, k \in SessionKeys :
    LET once == ensure_session(sessions, name, k[1], k[2], "none")
    IN /\ ~once.raised
       /\ once.services[name][k].exists
       /\ sessions[name][k].exists => once.services = sessions
       /\ ensure_session(once.services, name, k[1], k[2], "none") = once
       /\ ensure_session(sessions, name, k[1], k[2], "failure")
            = [services |-> sessions, raised |-> TRUE]

\* ensure_session returned for a request whose session existed and held the
\* events of the other request, and the events are still there
C17_Witness ==
  \E r \in Requests :
    /\ req[r].existed
    /\ req[r].pc = "invoke"
    /\ req[r].produced = <<>>
    /\ Len(SessionOf(r).events) = MaxEvents

\* the events as run returns them and as run_sse frames them
Dumped(produced) == [i \in 1..Len(produced) |-> model_dump(produced[i])]

Framed(produced) == [i \in 1..Len(produced) |-> sse_frame(produced[i])]

\* the request was served to its end without a failure
Served(r) == req[r].pc = "done" /\ req[r].invoked = 1 /\ ~req[r].failed

\* C18: a request to /run whose runner finished returns with status 200 the
\* list of the events the runner yielded, each once and in the order
\* yielded; a request to /run_sse has at any moment sent the frames of the
\* events yielded so far, each once and in that order, and all of them when
\* the stream ends.  So for the same yielded events both carry the same
\* events in the same order.
C18_SameEventsInOrder ==
  /\ \A r \in Requests :
       /\ (Served(r) /\ req[r].endpoint = "run")
            => req[r].response = Respond(200, Dumped(req[r].produced))
       /\ req[r].endpoint = "run_sse"
            => req[r].response.chunks = Framed(req[r].produced)
       /\ (Served(r) /\ req[r].endpoint = "run_sse")
            => req[r].response.status = 200 /\ req[r].response.complete
  /\ \A r, q \in Requests :
       ( /\ Served(r) /\ req[r].endpoint = "run"
         /\ Served(q) /\ req[q].endpoint = "run_sse"
         /\ req[r].produced = req[q].produced )
       => /\ Len(req[r].response.events) = Len(req[q].response.chunks)
          /\ \A i \in 1..Len(req[r].response.events) :
               req[r].response.events[i].dict = req[q].response.chunks[i][2].json

\* the same request on /run and on /run_sse, the runner yielding e2 and then
\* e1 for both: both carried e2, e1
C18_Witness ==
  /\ SameTriple
  /\ Served(1) /\ req[1].endpoint = "run"
  /\ Served(2) /\ req[2].endpoint = "run_sse"
  /\ req[1].produced = <<"e2", "e1">>
  /\ req[2].produced = <<"e2", "e1">>
  /\ req[1].response.events = <<model_dump("e2"), model_dump("e1")>>
  /\ req[2].response.chunks = <<sse_frame("e2"), sse_frame("e1")>>

\* C19 as stated: when the runner raised while a request was served, the
\* response of the request has an HTTP error status, on /run and on
\* /run_sse, and the runner was called once for the request.
C19_RunnerFailureIsHttpError ==
  \A r \in Requests :
    (req[r].pc = "done" /\ req[r].failed)
      => /\ req[r].response.status \in 400..599
         /\ req[r].invoked = 1

\* the session document on disk before and after the last call; before a
\* first call without a file it is the session the call starts from
OldSession ==
  IF pre[SessionPath].exists THEN json_loads(pre[SessionPath].text).val
  ELSE EmptySession

NewSession == json_loads(fs[SessionPath].text).val

\* C21: a successful merge leaves the session as it was but for the one
\* record of its pair: the session has the same keys in the same order, the
\* value of every key other than answers (current_topic_index and
\* asked_followup_for_topic among them) is the same, with or without a
\* follow-up answer; the answers list is as long as before or one longer, and
\* every record other than the one replaced is the same at the same index.
C21_MergeChangesOnlyItsRecord ==
  MergeOk =>
    /\ Len(NewSession.m) = Len(OldSession.m)
    /\ \A i \in 1..Len(OldSession.m) :
         /\ NewSession.m[i][1] = OldSession.m[i][1]
         /\ OldSession.m[i][1] # KAnswers => NewSession.m[i][2] = OldSession.m[i][2]
    /\ Len(NewAnswers) \in {Len(OldAnswers), Len(OldAnswers) + 1}
    /\ \A i \in 1..Len(OldAnswers) :
         \/ NewAnswers[i] = OldAnswers[i]
         \/ /\ HasRecord(OldAnswers, op.args.topic_id, op.args.question_id)
            /\ i = FirstIndex(OldAnswers, op.args.topic_id, op.args.question_id)

\* a merge with a follow-up answer replaced the first of two records of a
\* session with current_topic_index 1 and the follow-up of T1 asked
C21_Witness ==
  /\ MergeOk
  /\ op.args.followup_answer = JStr(<<"C", " ">>)
  /\ GetKey(OldSession.m, KCurrentTopicIndex) = JNum(1)
  /\ GetKey(NewSession.m, KCurrentTopicIndex) = JNum(1)
  /\ GetKey(NewSession.m, KAskedFollowup) = JObj(<< <<<<"T", "1">>, JBool(TRUE)>> >>)
  /\ Len(OldAnswers) = 2
  /\ NewAnswers[1] # OldAnswers[1]
  /\ NewAnswers[2] = OldAnswers[2]

\* C22 as stated: whenever a merge call has returned an error, the session
\* file is as it was before the call.
C22_FailedMergeLeavesFile ==
  (op.name = "update_session_append_answer" /\ res.status = "error")
    => fs[SessionPath] = pre[SessionPath]

\* C23: a successful merge with the empty string as follow-up answer stores
\* the empty string as followup_answer and, as final_answer, original_answer
\* without its leading and trailing whitespace: no separator is in it.
C23_EmptyFollowupIsNoFollowup ==
  (MergeOk /\ op.args.followup_answer = JStr(<<>>))
    => /\ DictGet(StoredRecord, KFollowupAnswer) = JStr(<<>>)
       /\ DictGet(StoredRecord, KFinalAnswer) = JStr(Trimmed(op.args.original_answer))
       /\ \A i \in 1..Len(DictGet(StoredRecord, KFinalAnswer).s) :
            DictGet(StoredRecord, KFinalAnswer).s[i] # "\n"

\* " B\n" merged with the follow-up answer "" is stored with final_answer "B"
\* and followup_answer ""
C23_Witness ==
  /\ MergeOk
  /\ op.args.original_answer = <<" ", "B", "\n">>
  /\ op.args.followup_answer = JStr(<<>>)
  /\ DictGet(StoredRecord, KFinalAnswer) = JStr(<<"B">>)
  /\ DictGet(StoredRecord, KFollowupAnswer) = JStr(<<>>)

====
